---- MODULE Spec2Model ----
(***************************************************************************)
(* Event-decision core of the webcam attention tracker (src/main.py):      *)
(* the alert throttle log_and_alert, the frame loop monitor_stream and the *)
(* session state they share (st.session_state.logs, last_alert_time,       *)
(* stop).  Time is counted in whole seconds of time.time().                *)
(***************************************************************************)
EXTENDS Integers, Sequences, FiniteSets, TLC

\* ------------------------------------------------------------------ bounds
\* Largest clock reading the model explores.
MaxTime == 20
\* The clock is sampled at multiples of ClockStep seconds.
ClockStep == 5
\* The ledger is explored up to MaxLogs entries.
MaxLogs == 2
\* Most classifier verdicts that are true for one face.
MaxVerdicts == 2

\* ------------------------------------------------------- program constants
\* main.py:31
ALERT_INTERVAL == 10
\* Threshold of AbsenceTimer.exceeded_limit (config constant, spec 4.2 / 8).
ABSENCE_LIMIT == 10

Times == {t \in 0..MaxTime : t % ClockStep = 0}
\* ------------------------------------------------------------ get_face_id
\* Number of landmarks the predictor returns for a face (main.py:85).
LandmarkCount == 2
\* shape.parts() of the two faces of the model, as (x, y) points
\* (main.py:35).
ShapeA == << <<1, 1>>, <<2, 1>> >>
ShapeB == << <<1, 2>>, <<2, 2>> >>
Shapes == {sh \in {ShapeA, ShapeB} : Len(sh) = LandmarkCount}
\* Landmark sequences that are empty or shorter than LandmarkCount.
MalformedShapes == {sh \in {<< >>, << <<1, 1>> >>} : Len(sh) < LandmarkCount}

\* main.py:36  the coordinates of the points, in order
RECURSIVE flat(_)
flat(landmarks) ==
    IF landmarks = << >> THEN << >>
    ELSE <<landmarks[1][1], landmarks[1][2]>> \o flat(Tail(landmarks))

\* main.py:39  num.to_bytes(2, byteorder='big', signed=True), for num in
\* -32768..32767
to_bytes(num) == <<(num % 65536) \div 256, num % 256>>

\* main.py:37-39
RECURSIVE data(_)
data(nums) ==
    IF nums = << >> THEN << >> ELSE to_bytes(nums[1]) \o data(Tail(nums))

\* main.py:40  hashlib.md5(data).hexdigest(): one digest for each byte
\* string of the model, that of the empty string being MD5's.  "A" and "B"
\* stand for the digests of the two faces, "S" for that of a short input.
md5(bytes) ==
    IF bytes = << >> THEN "d41d8cd98f00b204e9800998ecf8427e"
    ELSE IF bytes = data(flat(ShapeA)) THEN "A"
    ELSE IF bytes = data(flat(ShapeB)) THEN "B"
    ELSE "S"

\* main.py:34-40
get_face_id(shape) == md5(data(flat(shape)))

\* Subject ids get_face_id returns for the faces of the model.
FaceIds == {get_face_id(sh) : sh \in Shapes}
\* The ids it returns for the malformed inputs.
MalformedIds == {get_face_id(sh) : sh \in MalformedShapes}
\* The id the frame loop passes when there is no face (main.py:67, 77).
Unknown == "unknown"
\* The classifier verdicts of one face (main.py:88-92).
VerdictKinds == {"drowsy", "blinking", "looking_away", "head_down", "talking"}
VerdictSets == {v \in SUBSET VerdictKinds : Cardinality(v) <= MaxVerdicts}
\* What a call of log_event or notify_tutor can do.  Their return value is
\* discarded (main.py:49-50, 98), so a sink that reports failure by its
\* return value is the same step as one that succeeds.
SinkOutcomes == {"returns", "raises"}
\* The outcomes of (log_event, notify_tutor) during one step; notify_tutor
\* is not reached when log_event raises.
SinkPairs == {p \in SinkOutcomes \X SinkOutcomes : p[1] = "raises" => p[2] = "returns"}
\* absent_since of a tracker that is not in an absence episode.
None == -1
\* Frame-processing tasks that may run log_and_alert at the same time.
Tasks == {1, 2}
\* A task that is not inside log_and_alert.
Idle == [at |-> "idle", face |-> "", event |-> "", t |-> 0, last |-> 0,
         result |-> ""]

VARIABLES
    pc,               \* position of the script: "idle", "loop", "faces",
                      \* "face", "crashed"
    now,              \* the wall clock, time.time()
    last_alert_time,  \* st.session_state.last_alert_time: event -> timestamp
    logs,             \* st.session_state.logs, the ledger
    stop,             \* st.session_state["stop"]
    capHeld,          \* the capture handle is open and not released
    processed,        \* a face of the current frame has been processed
    face,             \* face_id of the face being processed, "" when none
    is_absent,        \* AbsenceTimer state
    absent_since,     \* AbsenceTimer state
    trace,            \* what the most recent step decided and called
    banner,           \* what the page shows of the last run of monitor_stream:
                      \* "", "Monitoring stopped" (main.py:120), "exception"
    tasks             \* log_and_alert calls in flight on concurrent tasks

vars == <<pc, now, last_alert_time, logs, stop, capHeld, processed, face,
          is_absent, absent_since, trace, banner, tasks>>

\* ---------------------------------------------------------- log_and_alert
\* main.py:45  st.session_state.last_alert_time.get(event, 0)
last_time(lat, event) == IF event \in DOMAIN lat THEN lat[event] ELSE 0

\* The check with the stored timestamp never found, as if the map were
\* read under another key than it is written.
Admits_IgnoresStored(lat, event, t) == t - 0 >= ALERT_INTERVAL

\* The check on the distance of the two readings instead of their
\* difference, so that a clock reading before the stored one can pass.
Admits_AbsGap(lat, event, t) ==
    LET d == t - last_time(lat, event)
    IN  (IF d < 0 THEN -d ELSE d) >= ALERT_INTERVAL

\* main.py:47  now - last_time >= ALERT_INTERVAL
Admits(lat, event, t) == t - last_time(lat, event) >= ALERT_INTERVAL

\* main.py:56  st.session_state.last_alert_time[event] = now
Stamp(lat, event, t) ==
    [e \in DOMAIN lat \cup {event} |-> IF e = event THEN t ELSE lat[e]]

\* main.py:51-55  the ledger entry; "Time" is datetime.now() to the second
LedgerEntry(face_id, event, t) == [face |-> face_id, event |-> event, time |-> t]

\* log_and_alert with the new entry put in front of the ledger, as
\* logs.insert(0, ...) would.
log_and_alert_Prepends(s, face_id, event, t, lo, no) ==
    IF s.raised THEN s
    ELSE IF ~Admits(s.lat, event, t)
    THEN [s EXCEPT !.trace = Append(@, <<"throttle", face_id, event, "Suppressed">>)]
    ELSE
      LET t1 == s.trace \o << <<"throttle", face_id, event, "Admitted">>,
                              <<"warn", face_id, event, "returns">>,
                              <<"log", face_id, event, lo>> >>
          t2 == Append(t1, <<"notify", face_id, event, no>>)
      IN  IF lo = "raises" THEN [s EXCEPT !.trace = t1, !.raised = TRUE]
          ELSE IF no = "raises" THEN [s EXCEPT !.trace = t2, !.raised = TRUE]
          ELSE [lat    |-> Stamp(s.lat, event, t),
                logs   |-> <<LedgerEntry(face_id, event, t)>> \o s.logs,
                trace  |-> Append(t2, <<"append", face_id, event, "returns">>),
                raised |-> FALSE]

\* main.py:43-56.  s is the running state of one step:
\* [lat, logs, trace, raised]; raised means an exception is propagating.
log_and_alert(s, face_id, event, t, lo, no) ==
    IF s.raised THEN s
    ELSE IF ~Admits(s.lat, event, t)
    THEN [s EXCEPT !.trace = Append(@, <<"throttle", face_id, event, "Suppressed">>)]
    ELSE
      LET t1 == s.trace \o << <<"throttle", face_id, event, "Admitted">>,
                              <<"warn", face_id, event, "returns">>,
                              <<"log", face_id, event, lo>> >>
          t2 == Append(t1, <<"notify", face_id, event, no>>)
      IN  IF lo = "raises" THEN [s EXCEPT !.trace = t1, !.raised = TRUE]
          ELSE IF no = "raises" THEN [s EXCEPT !.trace = t2, !.raised = TRUE]
          ELSE [lat    |-> Stamp(s.lat, event, t),
                logs   |-> Append(s.logs, LedgerEntry(face_id, event, t)),
                trace  |-> Append(t2, <<"append", face_id, event, "returns">>),
                raised |-> FALSE]

\* main.py:98  log_event(face_id, "Blinking")
log_blink(s, face_id, lo) ==
    IF s.raised THEN s
    ELSE [s EXCEPT !.trace = Append(@, <<"log", face_id, "Blinking", lo>>),
                   !.raised = (lo = "raises")]

\* The running state at the start of a step.
Start == [lat |-> last_alert_time, logs |-> logs, trace |-> <<>>, raised |-> FALSE]

\* main.py:88-107  the verdicts of one face and their checks, in source
\* order; the trace notes that is_blinking (main.py:89) returned true.
process_face(s, face_id, v, t, lo, no) ==
    LET s0 == IF "blinking" \in v
              THEN [s EXCEPT !.trace = Append(@, <<"verdict", face_id, "Blinking", "true">>)]
              ELSE s
        s1 == IF "drowsy" \in v
              THEN log_and_alert(s0, face_id, "Drowsiness", t, lo, no) ELSE s0
        s2 == IF "blinking" \in v THEN log_blink(s1, face_id, lo) ELSE s1
        s3 == IF "looking_away" \in v
              THEN log_and_alert(s2, face_id, "Looking Away", t, lo, no) ELSE s2
        s4 == IF "head_down" \in v
              THEN log_and_alert(s3, face_id, "Head Down", t, lo, no) ELSE s3
    IN  IF "talking" \in v
        THEN log_and_alert(s4, face_id, "Talking", t, lo, no) ELSE s4

\* ------------------------------------------------------------ AbsenceTimer
\* utils/time_tracker.py is not part of the sources; spec 4.2.
\* AbsenceTimer.update(absent): absent_since after the call
update_since(absent, since, newAbsent, t) ==
    IF ~newAbsent THEN None ELSE IF absent THEN since ELSE t

\* AbsenceTimer.exceeded_limit()
exceeded_limit(absent, since, t) == absent /\ t - since >= ABSENCE_LIMIT

\* ------------------------------------------------------------------- Init
Init ==
    /\ pc = "idle"
    /\ now \in Times
    /\ last_alert_time = << >>
    /\ logs = << >>
    /\ stop = FALSE
    /\ capHeld = FALSE
    /\ processed = FALSE
    /\ face = ""
    /\ is_absent = FALSE
    /\ absent_since = None
    /\ trace = << >>
    /\ banner = ""
    /\ tasks = [i \in Tasks |-> Idle]

\* The result of a step that ran log_and_alert / log_event calls: the
\* session state is stored.  An exception leaves monitor_stream and ends the
\* script run at once: cap.release() (main.py:119) is not reached and the
\* run's locals are gone; its AbsenceTimer (main.py:21) stays as it is until
\* the next script run makes a new one.
Commit(s, nextpc, rem, absent, since) ==
    /\ Len(s.logs) <= MaxLogs
    /\ last_alert_time' = s.lat
    /\ logs' = s.logs
    /\ trace' = s.trace
    /\ pc' = IF s.raised THEN "crashed" ELSE nextpc
    /\ processed' = IF s.raised THEN FALSE ELSE rem
    /\ is_absent' = absent
    /\ absent_since' = since
    /\ banner' = IF s.raised THEN "exception" ELSE banner

\* ---------------------------------------------------------------- actions
\* Time passes.
Tick ==
    /\ \E t \in Times : t > now /\ now' = t
    /\ trace' = << >>
    /\ UNCHANGED <<pc, last_alert_time, logs, stop, capHeld, processed, face,
                   is_absent, absent_since, banner, tasks>>

\* main.py:131-133, 60, 64, 119-121, and the script rerun (main.py:20-21)
OpenCamera ==
    /\ pc \in {"idle", "crashed"}
    /\ \E opened \in BOOLEAN :
          /\ pc' = IF opened THEN "loop" ELSE "idle"
          /\ capHeld' = opened
          /\ banner' = IF opened THEN "" ELSE "Monitoring stopped"
    /\ stop' = FALSE
    /\ is_absent' = FALSE
    /\ absent_since' = None
    /\ processed' = FALSE
    /\ trace' = << >>
    /\ UNCHANGED <<now, last_alert_time, logs, face, tasks>>

\* The camera-off path counting the frame as one without a face, as if it
\* called absence_timer.update(absent=True) before its alert.
CameraOffFrame_CountsAbsent ==
    /\ pc = "loop"
    /\ \E sk \in SinkPairs :
          Commit(log_and_alert(Start, Unknown, "Camera turned off", now, sk[1], sk[2]),
                 "loop", FALSE, TRUE,
                 update_since(is_absent, absent_since, TRUE, now))
    /\ UNCHANGED <<now, stop, capHeld, face, tasks>>

\* main.py:65-69
CameraOffFrame ==
    /\ pc = "loop"
    /\ \E sk \in SinkPairs :
          Commit(log_and_alert(Start, Unknown, "Camera turned off", now, sk[1], sk[2]),
                 "loop", FALSE, is_absent, absent_since)
    /\ UNCHANGED <<now, stop, capHeld, face, tasks>>

\* The no-face path with the alert attempted on every no-face frame, as if
\* the exceeded_limit() test of main.py:76 were missing.
NoFaceFrame_NoLimitCheck ==
    /\ pc = "loop"
    /\ LET since == update_since(is_absent, absent_since, TRUE, now)
       IN  \E sk \in SinkPairs :
             Commit(log_and_alert(Start, Unknown, "User left screen", now,
                                  sk[1], sk[2]),
                    "loop", FALSE, TRUE, since)
    /\ UNCHANGED <<now, stop, capHeld, face, tasks>>

\* main.py:74-78
NoFaceFrame ==
    /\ pc = "loop"
    /\ LET since == update_since(is_absent, absent_since, TRUE, now)
       IN  \E sk \in SinkPairs :
             Commit(IF exceeded_limit(TRUE, since, now)
                    THEN log_and_alert(Start, Unknown, "User left screen", now,
                                       sk[1], sk[2])
                    ELSE Start,
                    "loop", FALSE, TRUE, since)
    /\ UNCHANGED <<now, stop, capHeld, face, tasks>>

\* main.py:71-72, 79-82
FacesFrame ==
    /\ pc = "loop"
    /\ processed' = FALSE
    /\ is_absent' = FALSE
    /\ absent_since' = None
    /\ pc' = "faces"
    /\ trace' = << >>
    /\ UNCHANGED <<now, last_alert_time, logs, stop, capHeld, face, banner, tasks>>

\* main.py:84-86  the next face of the frame: its landmarks and its id
NextFace ==
    /\ pc = "faces"
    /\ \E shape \in Shapes : face' = get_face_id(shape)
    /\ pc' = "face"
    /\ trace' = << >>
    /\ UNCHANGED <<now, last_alert_time, logs, stop, capHeld, processed,
                   is_absent, absent_since, banner, tasks>>

\* main.py:88-107  the verdicts of that face and the alerts they raise
ProcessFace ==
    /\ pc = "face"
    /\ \E v \in VerdictSets, sk \in SinkPairs :
          Commit(process_face(Start, face, v, now, sk[1], sk[2]),
                 "faces", TRUE, FALSE, None)
    /\ face' = ""
    /\ UNCHANGED <<now, stop, capHeld, tasks>>

\* main.py:110-121
EndFrame ==
    /\ pc = "faces"
    /\ processed
    /\ processed' = FALSE
    /\ IF stop
       THEN /\ pc' = "idle"
            /\ capHeld' = FALSE
            /\ stop' = FALSE
            /\ banner' = "Monitoring stopped"
       ELSE /\ pc' = "loop"
            /\ UNCHANGED <<capHeld, stop, banner>>
    /\ trace' = << >>
    /\ UNCHANGED <<now, last_alert_time, logs, face, is_absent, absent_since,
                   banner, tasks>>

\* The stop signal is raised while monitoring runs (spec 5).
SetStop ==
    /\ pc \in {"loop", "faces", "face"}
    /\ ~stop
    /\ stop' = TRUE
    /\ trace' = << >>
    /\ UNCHANGED <<pc, now, last_alert_time, logs, capHeld, processed, face,
                   is_absent, absent_since, banner, tasks>>

\* main.py:135-141  View Dashboard, pressed while no run of monitor_stream
\* is in progress: the script reruns (a new AbsenceTimer, main.py:21), the
\* page is drawn anew and the ledger is shown with st.dataframe, or st.info
\* when it is empty.
ViewDashboard ==
    /\ pc \in {"idle", "crashed"}
    /\ trace' = << <<"dashboard", "", "",
                     IF logs # << >> THEN "dataframe" ELSE "info">> >>
    /\ banner' = ""
    /\ is_absent' = FALSE
    /\ absent_since' = None
    /\ UNCHANGED <<pc, now, last_alert_time, logs, stop, capHeld, processed, face,
                   tasks>>

\* The wall clock is set back; time.time() is not monotonic.
ClockStepBack ==
    /\ \E t \in Times : t < now /\ now' = t
    /\ trace' = << >>
    /\ UNCHANGED <<pc, last_alert_time, logs, stop, capHeld, processed, face,
                   is_absent, absent_since, banner, tasks>>

Next ==
    \/ Tick
    \/ OpenCamera
    \/ CameraOffFrame
    \/ NoFaceFrame
    \/ FacesFrame
    \/ NextFace
    \/ ProcessFace
    \/ EndFrame
    \/ SetStop
    \/ ViewDashboard

Spec == Init /\ [][Next]_vars

\* main.py:84-86 when the predictor hands over a landmark sequence that is
\* empty or short: get_face_id has no check of its input.
NextMalformedFace ==
    /\ pc = "faces"
    /\ \E shape \in MalformedShapes : face' = get_face_id(shape)
    /\ pc' = "face"
    /\ trace' = << >>
    /\ UNCHANGED <<now, last_alert_time, logs, stop, capHeld, processed,
                   is_absent, absent_since, banner, tasks>>

\* The frame loop with faces whose landmark input may be malformed.
MalformedNext ==
    \/ Next
    \/ NextMalformedFace

MalformedSpec == Init /\ [][MalformedNext]_vars

\* The frame loop under a wall clock that may also be set back.
SkewNext ==
    \/ Next
    \/ ClockStepBack

SkewSpec == Init /\ [][SkewNext]_vars

\* ------------------------------------------------- concurrent log_and_alert
\* log_and_alert takes no lock: between any two of its statements another
\* task may run.  Each task makes one call; the statements are the steps.
\* The event the concurrent calls are about.
ConcEvents == {"Looking Away"}

MainUnchanged == UNCHANGED <<pc, stop, capHeld, processed, face, is_absent,
                             absent_since, trace, banner>>

\* main.py:43-44  the call is entered and reads the clock
TaskEnter ==
    /\ \E i \in Tasks, face_id \in FaceIds, event \in ConcEvents :
          /\ tasks[i].at = "idle"
          /\ tasks' = [tasks EXCEPT ![i] = [at |-> "l45", face |-> face_id,
                                            event |-> event, t |-> now,
                                            last |-> 0, result |-> ""]]
    /\ MainUnchanged
    /\ UNCHANGED <<now, last_alert_time, logs>>

\* main.py:45
TaskRead ==
    /\ \E i \in Tasks :
          /\ tasks[i].at = "l45"
          /\ tasks' = [tasks EXCEPT ![i].at = "l47",
                          ![i].last = last_time(last_alert_time, tasks[i].event)]
    /\ MainUnchanged
    /\ UNCHANGED <<now, last_alert_time, logs>>

\* main.py:47
TaskCheck ==
    /\ \E i \in Tasks :
          /\ tasks[i].at = "l47"
          /\ tasks' = IF tasks[i].t - tasks[i].last >= ALERT_INTERVAL
                      THEN [tasks EXCEPT ![i].at = "l48", ![i].result = "Admitted"]
                      ELSE [tasks EXCEPT ![i].at = "done", ![i].result = "Suppressed"]
    /\ MainUnchanged
    /\ UNCHANGED <<now, last_alert_time, logs>>

\* main.py:48-50
TaskDispatch ==
    /\ \E i \in Tasks, sk \in SinkPairs :
          /\ tasks[i].at = "l48"
          /\ tasks' = [tasks EXCEPT ![i].at =
                          IF "raises" \in {sk[1], sk[2]} THEN "raised" ELSE "l51"]
    /\ MainUnchanged
    /\ UNCHANGED <<now, last_alert_time, logs>>

\* main.py:51-55
TaskAppend ==
    /\ \E i \in Tasks :
          /\ tasks[i].at = "l51"
          /\ logs' = Append(logs, LedgerEntry(tasks[i].face, tasks[i].event, now))
          /\ tasks' = [tasks EXCEPT ![i].at = "l56"]
    /\ MainUnchanged
    /\ UNCHANGED <<now, last_alert_time>>

\* main.py:56
TaskStamp ==
    /\ \E i \in Tasks :
          /\ tasks[i].at = "l56"
          /\ last_alert_time' = Stamp(last_alert_time, tasks[i].event, tasks[i].t)
          /\ tasks' = [tasks EXCEPT ![i].at = "done"]
    /\ MainUnchanged
    /\ UNCHANGED <<now, logs>>

ConcNext ==
    \/ Tick
    \/ TaskEnter
    \/ TaskRead
    \/ TaskCheck
    \/ TaskDispatch
    \/ TaskAppend
    \/ TaskStamp

ConcSpec == Init /\ [][ConcNext]_vars

\* ------------------------------------------------------------- properties
\* The steps of the trace that are throttle decisions (main.py:47).
Decisions == {k \in DOMAIN trace : trace[k][1] = "throttle"}

\* How often the most recent step made the call op for (face_id, event).
Count(op, face_id, event) ==
    Cardinality({k \in DOMAIN trace :
        trace[k][1] = op /\ trace[k][2] = face_id /\ trace[k][3] = event})

\* The ledger entries of one (subject, event) pair.
EntriesFor(face_id, event) ==
    {i \in DOMAIN logs : logs[i].face = face_id /\ logs[i].event = event}

\* C1: any two ledger entries of the same (subject, event) pair were
\* admitted at least ALERT_INTERVAL seconds apart.
C1_LedgerSpacing ==
    \A i, j \in DOMAIN logs :
        (i < j /\ logs[i].face = logs[j].face /\ logs[i].event = logs[j].event)
            => logs[j].time - logs[i].time >= ALERT_INTERVAL

\* The ledger holds two entries of one (face, event) pair, the second
\* appended by the most recent step.
C1_Witness ==
    \E i, j \in DOMAIN logs :
        /\ i < j /\ j = Len(logs)
        /\ logs[i].face \in FaceIds
        /\ logs[i].face = logs[j].face /\ logs[i].event = logs[j].event
        /\ Count("append", logs[j].face, logs[j].event) = 1

\* C2: the throttle is keyed on (subject, event): an alert for (A, E) is
\* suppressed only by an earlier admission of (A, E) itself less than
\* ALERT_INTERVAL ago, never by an admission of another subject.  (Calls
\* before the clock reaches ALERT_INTERVAL are left to C4.)
C2_SuppressedOnlyByOwnKey ==
    \A k \in Decisions :
        (trace[k][4] = "Suppressed" /\ now >= ALERT_INTERVAL)
            => \E i \in EntriesFor(trace[k][2], trace[k][3]) :
                   now - logs[i].time < ALERT_INTERVAL

\* C3: for a key with no earlier admission, the first attempt is Admitted;
\* a second attempt at t2 > t1 is Suppressed when t2 - t1 < ALERT_INTERVAL
\* and Admitted when t2 - t1 >= ALERT_INTERVAL.
C3_TwoAttempts ==
    \A k \in Decisions :
        LET own      == EntriesFor(trace[k][2], trace[k][3])
            prior    == {i \in own : logs[i].time < now}
            admitted == trace[k][4] = "Admitted"
        IN  /\ (own = {}) => admitted
            /\ \A i \in prior :
                  (prior = {i} /\ (admitted \/ own = prior))
                     => (admitted <=> now - logs[i].time >= ALERT_INTERVAL)

\* C4: an attempt for an event with no stored last-alert timestamp is
\* Admitted at every clock value, also below ALERT_INTERVAL.
C4_FirstAttemptAdmitted ==
    \A k \in Decisions :
        trace[k][3] \notin DOMAIN last_alert_time => trace[k][4] = "Admitted"

\* C5: whenever the throttle admits an alert, its ledger entry is appended,
\* whatever log_event and notify_tutor do.
C5_AdmittedIsAppended ==
    \A k \in Decisions :
        trace[k][4] = "Admitted"
            => \E i \in EntriesFor(trace[k][2], trace[k][3]) : logs[i].time = now

\* C6: a sink failure during an admitted dispatch is not fatal and does not
\* revert the admission: the frame loop goes on and the throttle timestamp
\* of the event is now.
C6_SinkFailureKeepsAdmission ==
    \A k \in DOMAIN trace :
        (trace[k][1] \in {"log", "notify"} /\ trace[k][3] # "Blinking"
             /\ trace[k][4] = "raises")
            => /\ pc # "crashed"
               /\ trace[k][3] \in DOMAIN last_alert_time
               /\ last_alert_time[trace[k][3]] = now

\* C7: two tasks that run log_and_alert for the same key at the same clock
\* reading never both complete as Admitted (two dispatches, two ledger
\* entries in one window).
C7_NoDoubleAdmit ==
    ~ /\ tasks[1].at = "done" /\ tasks[1].result = "Admitted"
      /\ tasks[2].at = "done" /\ tasks[2].result = "Admitted"
      /\ tasks[1].face = tasks[2].face
      /\ tasks[1].event = tasks[2].event
      /\ tasks[1].t = tasks[2].t

\* C8: a Suppressed call makes no sink call and no ledger append; an Admitted
\* call makes exactly one log_event call, one notify_tutor call and one
\* ledger append; so the first Looking Away of subject A at t = 0 leaves a
\* ledger of length 1.
C8_CallEffects ==
    /\ \A k \in Decisions :
          LET n == IF trace[k][4] = "Admitted" THEN 1 ELSE 0
          IN  /\ Count("log", trace[k][2], trace[k][3]) = n
              /\ Count("notify", trace[k][2], trace[k][3]) = n
              /\ Count("append", trace[k][2], trace[k][3]) = n
    /\ (now = 0 /\ \E k \in Decisions :
                      trace[k][2] = "A" /\ trace[k][3] = "Looking Away")
          => Len(logs) = 1

\* C9: every face whose blink verdict is true gets exactly one
\* log_event(face_id, "Blinking") call, and Blinking never reaches the
\* throttle map, the ledger or notify_tutor.
C9_BlinkAlwaysLogged ==
    /\ \A k \in DOMAIN trace :
          trace[k][1] = "verdict" => Count("log", trace[k][2], "Blinking") = 1
    /\ "Blinking" \notin DOMAIN last_alert_time
    /\ \A i \in DOMAIN logs : logs[i].event # "Blinking"
    /\ \A k \in DOMAIN trace :
          trace[k][1] \in {"notify", "throttle"} => trace[k][3] # "Blinking"

\* C10: once the stop signal is set, the frame loop is left at the end of
\* the frame being processed, whatever kind of frame it is.
C10_StopEndsLoop ==
    [][(stop /\ (CameraOffFrame \/ NoFaceFrame \/ EndFrame))
          => pc' \notin {"loop", "faces", "face"}]_vars

\* C11: the capture handle is released on every exit path of monitor_stream,
\* also when an error raised while a frame is processed ends it: the script
\* is never outside monitor_stream with the handle still held.
C11_ReleasedOnExit == pc \in {"idle", "crashed"} => ~capHeld

\* The step's calls include a throttle decision on "User left screen".
AbsenceAlertAttempted(tr) ==
    \E k \in DOMAIN tr : tr[k][1] = "throttle" /\ tr[k][3] = "User left screen"

\* Spacing of the samples in the scenario of spec 8: half the threshold
\* (1 s samples with a 2 s threshold).
SampleGap == ABSENCE_LIMIT \div 2

\* The transitions of the absence state as the frame loop drives them, and
\* the alert attempted only on a no-face frame of an episode that has
\* lasted ABSENCE_LIMIT.
AbsenceTransitions ==
    /\ (NoFaceFrame /\ ~is_absent)
          => (is_absent' /\ absent_since' = now)
    /\ (NoFaceFrame /\ is_absent)
          => (is_absent' /\ absent_since' = absent_since)
    /\ FacesFrame => (~is_absent' /\ absent_since' = None)
    /\ AbsenceAlertAttempted(trace')
          => /\ NoFaceFrame
             /\ is_absent
             /\ now - absent_since >= ABSENCE_LIMIT

C13_CameraOffKeepsLoop ==
    [][CameraOffFrame
         => /\ pc' = "loop"
            /\ Cardinality({k \in DOMAIN trace' :
                   /\ trace'[k][1] = "throttle"
                   /\ trace'[k][2] = Unknown
                   /\ trace'[k][3] = "Camera turned off"}) = 1
            /\ (\E k \in DOMAIN trace' : trace'[k][1] = "log")
                  => \A i \in DOMAIN logs :
                        logs[i].event = "Camera turned off"
                           => now - logs[i].time >= ALERT_INTERVAL]_vars

\* C14: when the capture cannot be opened, the frame loop never starts (no
\* frame is processed, no alert decided or dispatched) and what the caller
\* is shown differs from what a normal stop of monitoring shows
\* ("Monitoring stopped", main.py:120).
C14_StartupFailureSurfaced ==
    [][(OpenCamera /\ ~capHeld')
         => /\ pc' = "idle"
            /\ trace' = << >>
            /\ logs' = logs
            /\ last_alert_time' = last_alert_time
            /\ banner' # "Monitoring stopped"]_vars

\* C15: dispatch and timestamp update are atomic.  The throttle map holds a
\* timestamp for an event iff the ledger holds an entry of it, and every
\* log_event or notify_tutor call of an admission comes with the other
\* call, the ledger append and the timestamp update of that admission.
C15_DispatchAtomic ==
    /\ \A e \in DOMAIN last_alert_time : \E i \in DOMAIN logs : logs[i].event = e
    /\ \A i \in DOMAIN logs : logs[i].event \in DOMAIN last_alert_time
    /\ \A k \in DOMAIN trace :
          (trace[k][1] \in {"log", "notify"} /\ trace[k][3] # "Blinking")
             => /\ Count("log", trace[k][2], trace[k][3]) = 1
                /\ Count("notify", trace[k][2], trace[k][3]) = 1
                /\ Count("append", trace[k][2], trace[k][3]) = 1
                /\ trace[k][3] \in DOMAIN last_alert_time
                /\ last_alert_time[trace[k][3]] = now
                /\ \E i \in EntriesFor(trace[k][2], trace[k][3]) :
                      logs[i].time = now

\* C16: the stored last-alert timestamp of an event never decreases, also
\* when the clock is set back between calls: a call made at a clock reading
\* before the stored timestamp leaves it unchanged.
C16_TimestampMonotonic ==
    [][\A e \in DOMAIN last_alert_time :
          /\ e \in DOMAIN last_alert_time'
          /\ last_alert_time'[e] >= last_alert_time[e]
          /\ now < last_alert_time[e]
                => last_alert_time'[e] = last_alert_time[e]]_vars

\* A call of log_and_alert has just been decided for an event whose stored
\* timestamp is later than the clock reading of the call.
C16_Witness ==
    \E k \in Decisions :
        /\ trace[k][3] \in DOMAIN last_alert_time
        /\ now < last_alert_time[trace[k][3]]

\* C17 as stated: the ledger is append-only and chronological.  Every step
\* keeps the existing entries as a prefix of the ledger, the entries are in
\* order of non-decreasing timestamps, and View Dashboard leaves the ledger
\* as it is.
C17_LedgerChronological ==
    [][/\ Len(logs') >= Len(logs)
       /\ SubSeq(logs', 1, Len(logs)) = logs
       /\ \A i, j \in DOMAIN logs' : i < j => logs'[i].time <= logs'[j].time
       /\ ViewDashboard => logs' = logs]_vars

\* C17 amended: every step keeps the existing entries as a prefix, each
\* entry added carries the clock reading of its admission (so timestamps do
\* not decrease from one entry to the next unless the clock was set back
\* between them), and View Dashboard leaves the ledger as it is.
C17_LedgerAppendOnly ==
    [][/\ Len(logs') >= Len(logs)
       /\ SubSeq(logs', 1, Len(logs)) = logs
       /\ \A i \in DOMAIN logs' : i > Len(logs) => logs'[i].time = now
       /\ (logs # << >> /\ now >= logs[Len(logs)].time)
             => \A i \in DOMAIN logs' :
                   i > Len(logs) => logs'[i].time >= logs[Len(logs)].time
       /\ ViewDashboard => logs' = logs]_vars

\* View Dashboard has just shown a ledger of two or more entries.
C17_Witness ==
    /\ Len(logs) >= 2
    /\ trace = << <<"dashboard", "", "", "dataframe">> >>

\* C18: a landmark sequence that is empty or shorter than LandmarkCount is
\* rejected by get_face_id and never becomes a subject id: no face is
\* processed under such an id, and no throttle decision, sink call or ledger
\* entry carries it.
C18_MalformedRejected ==
    /\ face \notin MalformedIds
    /\ \A k \in DOMAIN trace : trace[k][2] \notin MalformedIds
    /\ \A i \in DOMAIN logs : logs[i].face \notin MalformedIds

\* C19: the throttle state is reset when monitoring is started again: after
\* Open Camera, last_alert_time holds no timestamp of an earlier run, so
\* that the first occurrence of every event in the new run is admitted.
C19_ThrottleResetOnRestart ==
    [][OpenCamera => last_alert_time' = << >>]_vars

\* The step's calls include a throttle decision on "Camera turned off".
CameraOffAttempted(tr) ==
    \E k \in DOMAIN tr : tr[k][1] = "throttle" /\ tr[k][3] = "Camera turned off"

\* C20: a camera-off frame leaves the absence state as it is, so an episode
\* that began before it keeps its absent_since, and a no-face frame that
\* follows the camera-off frame attempts the "User left screen" alert at
\* once when the episode began ABSENCE_LIMIT or more before.
C20_CameraOffKeepsAbsence ==
    [][/\ CameraOffFrame
             => (is_absent' = is_absent /\ absent_since' = absent_since)
       /\ (NoFaceFrame /\ CameraOffAttempted(trace) /\ is_absent
              /\ now - absent_since >= ABSENCE_LIMIT)
             => AbsenceAlertAttempted(trace')]_vars

\* A camera-off frame has just been handled inside an absence episode that
\* began ABSENCE_LIMIT or more before, and the loop goes on.
C20_Witness ==
    /\ pc = "loop"
    /\ CameraOffAttempted(trace)
    /\ is_absent
    /\ now - absent_since >= ABSENCE_LIMIT

====
